---- MODULE Spec2Model ----
(***************************************************************************)
(* Model of the google_calendar plugin of hal-9001: the per-room config    *)
(* and calendar caches, their scheduled and lazy refresh, and the          *)
(* suppression of repeated notifications through the TTL'd KV store.       *)
(* Time is counted in minutes since the process started.                   *)
(***************************************************************************)
EXTENDS Integers, Sequences, FiniteSets, TLC

VARIABLES
    clock,        \* wall clock, what time.Now() returns
    advances,     \* how many times the clock has moved
    ops,          \* how many chat events and scheduler ticks have been dispatched
    configCache,  \* room id -> Config (the package-level map)
    mut,          \* room id -> holder of that Config's mutex, or NoProc
    kv,           \* hal's KV store: key -> [value, setAt, ttl]
    pc,           \* goroutine -> position in the code
    loc,          \* goroutine -> its local variables
    notifyLog,    \* history: the autoreplies sent, in order
    silenced      \* history: room id -> the instant up to which it was last silenced

vars == <<clock, advances, ops, configCache, mut, kv, pc, loc, notifyLog, silenced>>

-----------------------------------------------------------------------------
(* Bounds of the model *)

MaxOps == 2
MaxAdvances == 1
MaxKVOps == 3
MaxKVAdvances == 1
MaxLiveAdvances == 1
MaxCacheOps == 3
MaxCacheAdvances == 1
MaxDecideOps == 2
MaxDecideAdvances == 2
MaxFaultOps == 3
MaxFaultAdvances == 1
MaxKeyOps == 2
MaxKeyAdvances == 1

(* Program constants, in minutes *)

ConfigMaxAge == 10
CalMaxAgeTenthHours == 11
UserSpamTTL == 120
RoomSpamTTL == 10

\* time.Time{} (January 1, year 1) seen from the process start
ZeroTime == -1059000000
\* the largest time.Duration (2^63-1 ns); Time.Sub saturates there
MaxDuration == 153722867

NoProc == "-"

Rooms == {"r1"}
\* a room for which initData was never called
UnknownRoom == "r0"
Users == {"u1", "u2"}
Handlers == {"h1", "h2"}
Ticker(r) == "tick-" \o r
Tickers == {Ticker(r) : r \in Rooms}
Procs == Handlers \cup Tickers

-----------------------------------------------------------------------------
(* The environment: what the external collaborators may answer *)

EvStandup == [Name |-> "standup", Description |-> "", Start |-> 0, End |-> 2]
EvOncall == [Name |-> "oncall", Description |-> "quiet hours", Start |-> -60, End |-> 1000]

Feeds == {<<>>, <<EvStandup>>, <<EvStandup, EvOncall>>, <<EvOncall, EvStandup>>}

\* a preference answer: found tells whether the key is set
NoPref == [found |-> FALSE, value |-> ""]
Pref(v) == [found |-> TRUE, value |-> v]

-----------------------------------------------------------------------------
(* Pure helpers *)

Min(a, b) == IF a < b THEN a ELSE b

\* t.Sub(u): the difference, saturated at the largest Duration
Sub(t, u) == Min(t - u, MaxDuration)

\* age.Minutes() > 10
ConfigStale(age) == age > ConfigMaxAge

\* the threshold of 1.1 hours taken for 110 minutes
CalStaleMinutes(age) == age > 10 * CalMaxAgeTenthHours

\* calAge.Hours() > 1.1
CalStale(age) == age * 10 > 60 * CalMaxAgeTenthHours

getUserSpamKey(userId, roomId) == "gcal-spam-" \o userId \o "-" \o roomId

getRoomSpamKey(roomId) == "gcal-spam-" \o roomId

\* strconv.ParseBool
ParseBool(s) ==
    IF s \in {"1", "t", "T", "TRUE", "true", "True"} THEN [val |-> TRUE, err |-> FALSE]
    ELSE IF s \in {"0", "f", "F", "FALSE", "false", "False"} THEN [val |-> FALSE, err |-> FALSE]
    ELSE [val |-> FALSE, err |-> TRUE]

\* Config.loadBoolPref, given the store's answer for the key
loadBoolPref(pref) ==
    LET value == IF pref.found THEN pref.value ELSE "false"
        parsed == ParseBool(value)
    IN  IF parsed.err THEN FALSE ELSE parsed.val

\* time.LoadLocation
LoadLocation(name) ==
    IF name \in {"", "UTC", "Local", "America/Los_Angeles"}
    THEN [tz |-> IF name = "" THEN "UTC" ELSE name, err |-> FALSE]
    ELSE [tz |-> "", err |-> TRUE]

DefaultTz == "America/Los_Angeles"

\* time.ParseDuration, in minutes
ParseDuration(s) ==
    IF s = "4h" THEN [d |-> 240, err |-> FALSE]
    ELSE IF s = "1m" THEN [d |-> 1, err |-> FALSE]
    ELSE [d |-> 0, err |-> TRUE]

\* fmt.Sprintf(DefaultMsg, name) with DefaultMsg = "Calendar event: %q"
DefaultMsg(name) == "Calendar event: " \o "\"" \o name \o "\""

\* the autoreply that names the event even when it has a description
MessageNameOnly(e) == DefaultMsg(e.Name)

\* the text of the autoreply for an event
Message(e) == IF e.Description = "" THEN DefaultMsg(e.Name) ELSE e.Description

\* an event taken for active at its very start and end
BracketsInclusive(e, now) == e.Start <= now /\ e.End >= now

\* e.Start.Before(now) && e.End.After(now)
Brackets(e, now) == e.Start < now /\ e.End > now

\* strings.HasPrefix(strings.TrimSpace(evt.Body), "!")
IsCommand(body) ==
    /\ Len(body) > 0
    /\ body[1] \in {"!gcal", "!uptime"}

-----------------------------------------------------------------------------
(* The KV store with TTLs (hal.GetKV / hal.SetKV) *)

KVLive(key) == key \in DOMAIN kv /\ clock < kv[key].setAt + kv[key].ttl

GetKV(key) == IF KVLive(key) THEN kv[key].value ELSE ""

SetKV(key, value, ttl) ==
    kv' = (key :> [value |-> value, setAt |-> clock, ttl |-> ttl]) @@ kv

\* now.String(): some non-empty text; the plugin only ever tests it for emptiness
TimeString(t) == "at"

-----------------------------------------------------------------------------
(* State *)

ZeroConfig(r) ==
    [RoomId |-> r, CalendarId |-> "", Timezone |-> "", Autoreply |-> FALSE,
     AnnounceStart |-> FALSE, AnnounceEnd |-> FALSE, CalEvents |-> <<>>,
     configTs |-> ZeroTime, calTs |-> ZeroTime]

ZeroLoc ==
    [room |-> "", user |-> "", body |-> <<>>, now |-> 0,
     userTs |-> "", roomTs |-> "", calAge |-> 0,
     evts |-> <<>>, err |-> FALSE, calEvents |-> <<>>, i |-> 0,
     msg |-> "", out |-> "", unow |-> 0, ret |-> "", uret |-> "",
     nload |-> 0, nfetch |-> 0, nreply |-> 0, nset |-> 0,
     autoSeen |-> {}, after |-> "", loadErr |-> FALSE,
     userErr |-> FALSE, roomErr |-> FALSE]

Init ==
    /\ clock = 0
    /\ advances = 0
    /\ ops = 0
    /\ configCache = [r \in Rooms |-> ZeroConfig(r)]
    /\ mut = [r \in Rooms |-> NoProc]
    /\ kv = <<>>
    /\ pc = [p \in Procs |-> "idle"]
    /\ loc = [p \in Procs |-> ZeroLoc]
    /\ notifyLog = <<>>
    /\ silenced = [r \in Rooms |-> ZeroTime]

\* what is left of a goroutine's locals once its function has returned: the
\* outcome and what it was decided on, kept for inspection
Finished(l) ==
    [ZeroLoc EXCEPT !.room = l.room, !.user = l.user, !.body = l.body,
                    !.now = l.now, !.unow = l.unow,
                    !.userTs = l.userTs, !.roomTs = l.roomTs,
                    !.calAge = l.calAge, !.calEvents = l.calEvents,
                    !.out = l.out, !.msg = l.msg, !.err = l.err,
                    !.nload = l.nload, !.nfetch = l.nfetch,
                    !.nreply = l.nreply, !.nset = l.nset,
                    !.autoSeen = l.autoSeen, !.after = l.after,
                    !.loadErr = l.loadErr,
                    !.userErr = l.userErr, !.roomErr = l.roomErr]

\* goroutine p moves to label with locals l
Move(p, label, l) ==
    /\ pc' = [pc EXCEPT ![p] = label]
    /\ loc' = [loc EXCEPT ![p] = IF label = "done" THEN Finished(l) ELSE l]

SetConfig(r, c) == configCache' = [configCache EXCEPT ![r] = c]

-----------------------------------------------------------------------------
(* handleEvt: a chat event is dispatched to goroutine p.  E is the           *)
(* environment: the answers the external collaborators may give.            *)

\* where handleEvt goes first, from the body alone
Dispatch(body) ==
    IF body = <<>> THEN "done"
    ELSE IF ~IsCommand(body) THEN "h_getuser"
    ELSE IF body[1] # "!gcal" \/ Len(body) < 2 THEN "done"
    ELSE "gc_age"

DispatchOut(body) ==
    IF body = <<>> THEN "ignored"
    ELSE IF ~IsCommand(body) THEN ""
    ELSE IF body[1] # "!gcal" THEN "ignored"
    ELSE IF Len(body) < 2 THEN "usage"
    ELSE ""

\* one more chat event or tick is dispatched, while the environment has some
Dispatched(E) ==
    IF E.forever THEN UNCHANGED ops ELSE ops < E.maxOps /\ ops' = ops + 1

\* a chat event of user u reaches handleEvt
Deliver(p, u, E) ==
    /\ pc[p] \in {"idle", "done"}
    /\ Dispatched(E)
    /\ \E r \in E.rooms, body \in E.bodies :
          Move(p, Dispatch(body),
               [ZeroLoc EXCEPT !.room = r, !.user = u, !.body = body,
                               !.now = clock, !.ret = "c_switch",
                               !.out = DispatchOut(body), !.after = loc[p].out])
    /\ UNCHANGED <<clock, advances, configCache, mut, kv, notifyLog, silenced>>

handleEvt(p, E) == \E u \in E.users : Deliver(p, u, E)

\* userTs, _ := hal.GetKV(userSpamKey)
GetUserTs(p) ==
    /\ pc[p] = "h_getuser"
    /\ Move(p, "h_getroom",
            [loc[p] EXCEPT !.userTs = GetKV(getUserSpamKey(loc[p].room, loc[p].user))])
    /\ UNCHANGED <<clock, advances, ops, configCache, mut, kv, notifyLog, silenced>>

\* userTs, _ := hal.GetKV(userSpamKey) when the store fails: the error is
\* dropped and the value is the empty string
GetUserTsFails(p) ==
    /\ pc[p] = "h_getuser"
    /\ Move(p, "h_getroom", [loc[p] EXCEPT !.userTs = "", !.userErr = TRUE])
    /\ UNCHANGED <<clock, advances, ops, configCache, mut, kv, notifyLog, silenced>>

\* roomTs, _ := hal.GetKV(roomSpamKey)
GetRoomTs(p) ==
    /\ pc[p] = "h_getroom"
    /\ Move(p, "gc_age",
            [loc[p] EXCEPT !.roomTs = GetKV(getRoomSpamKey(loc[p].room)),
                           !.ret = "h_calage"])
    /\ UNCHANGED <<clock, advances, ops, configCache, mut, kv, notifyLog, silenced>>

\* roomTs, _ := hal.GetKV(roomSpamKey) when the store fails
GetRoomTsFails(p) ==
    /\ pc[p] = "h_getroom"
    /\ Move(p, "gc_age",
            [loc[p] EXCEPT !.roomTs = "", !.roomErr = TRUE, !.ret = "h_calage"])
    /\ UNCHANGED <<clock, advances, ops, configCache, mut, kv, notifyLog, silenced>>

\* getCachedConfig: look the room up, reload when configTs is too old.  The
\* map gives nil for a room that initData never saw, and c.configTs then
\* panics
getCachedConfig(p) ==
    /\ pc[p] = "gc_age"
    /\ IF loc[p].room \notin DOMAIN configCache
       THEN Move(p, "panic", loc[p])
       ELSE LET c == configCache[loc[p].room]
                age == Sub(loc[p].now, c.configTs)
            IN  Move(p, IF ConfigStale(age) THEN "lp_cid" ELSE loc[p].ret, loc[p])
    /\ UNCHANGED <<clock, advances, ops, configCache, mut, kv, notifyLog, silenced>>

-----------------------------------------------------------------------------
(* Config.LoadFromPrefs, called by goroutine p; it returns to loc[p].ret *)

\* c.mut.Lock() and the calendar-id preference
LoadCalendarId(p, E) ==
    /\ pc[p] = "lp_cid"
    /\ mut[loc[p].room] = NoProc
    /\ \E cidpref \in E.cids :
          IF cidpref.found
          THEN /\ SetConfig(loc[p].room,
                            [configCache[loc[p].room] EXCEPT !.CalendarId = cidpref.value])
               /\ mut' = [mut EXCEPT ![loc[p].room] = p]
               /\ Move(p, "lp_flags", [loc[p] EXCEPT !.nload = @ + 1])
          ELSE /\ Move(p, loc[p].ret, [loc[p] EXCEPT !.nload = @ + 1, !.loadErr = TRUE])
               /\ UNCHANGED <<configCache, mut>>
    /\ UNCHANGED <<clock, advances, ops, kv, notifyLog, silenced>>

\* the three loadBoolPref calls
LoadFlags(p, E) ==
    /\ pc[p] = "lp_flags"
    /\ \E ar \in E.bools, as \in E.announce, ae \in E.announce :
          SetConfig(loc[p].room,
                    [configCache[loc[p].room] EXCEPT !.Autoreply = loadBoolPref(ar),
                                                     !.AnnounceStart = loadBoolPref(as),
                                                     !.AnnounceEnd = loadBoolPref(ae)])
    /\ Move(p, "lp_tz", loc[p])
    /\ UNCHANGED <<clock, advances, ops, mut, kv, notifyLog, silenced>>

\* LoadFromPrefs without its deferred c.mut.Unlock()
LoadTimezoneKeepsLock(p, E) ==
    /\ pc[p] = "lp_tz"
    /\ \E tzpref \in E.tzs :
          LET name == IF tzpref.found THEN tzpref.value ELSE DefaultTz
              l == LoadLocation(name)
          IN  IF l.err
              THEN /\ UNCHANGED configCache
                   /\ Move(p, loc[p].ret, [loc[p] EXCEPT !.loadErr = TRUE])
              ELSE /\ SetConfig(loc[p].room,
                                [configCache[loc[p].room] EXCEPT !.Timezone = l.tz,
                                                                 !.configTs = clock])
                   /\ Move(p, loc[p].ret, loc[p])
    /\ UNCHANGED <<clock, advances, ops, mut, kv, notifyLog, silenced>>

\* LoadFromPrefs setting configTs before it resolves the timezone
LoadTimezoneMarksFresh(p, E) ==
    /\ pc[p] = "lp_tz"
    /\ \E tzpref \in E.tzs :
          LET name == IF tzpref.found THEN tzpref.value ELSE DefaultTz
              l == LoadLocation(name)
          IN  IF l.err
              THEN /\ SetConfig(loc[p].room,
                                [configCache[loc[p].room] EXCEPT !.configTs = clock])
                   /\ Move(p, loc[p].ret, [loc[p] EXCEPT !.loadErr = TRUE])
              ELSE /\ SetConfig(loc[p].room,
                                [configCache[loc[p].room] EXCEPT !.Timezone = l.tz,
                                                                 !.configTs = clock])
                   /\ Move(p, loc[p].ret, loc[p])
    /\ mut' = [mut EXCEPT ![loc[p].room] = NoProc]
    /\ UNCHANGED <<clock, advances, ops, kv, notifyLog, silenced>>

\* the timezone preference, configTs and the deferred c.mut.Unlock()
LoadTimezone(p, E) ==
    /\ pc[p] = "lp_tz"
    /\ \E tzpref \in E.tzs :
          LET name == IF tzpref.found THEN tzpref.value ELSE DefaultTz
              l == LoadLocation(name)
          IN  IF l.err
              THEN /\ UNCHANGED configCache
                   /\ Move(p, loc[p].ret, [loc[p] EXCEPT !.loadErr = TRUE])
              ELSE /\ SetConfig(loc[p].room,
                                [configCache[loc[p].room] EXCEPT !.Timezone = l.tz,
                                                                 !.configTs = clock])
                   /\ Move(p, loc[p].ret, loc[p])
    /\ mut' = [mut EXCEPT ![loc[p].room] = NoProc]
    /\ UNCHANGED <<clock, advances, ops, kv, notifyLog, silenced>>

-----------------------------------------------------------------------------
(* Config.getCachedCalEvents, called by handleEvt in goroutine p *)

\* the test of lines 149-152 taking a failed lookup for a record
ResolvedFailClosed(l, calEvents, err) ==
    IF err THEN [pc |-> "done", loc |-> [l EXCEPT !.err = TRUE, !.out = "error"]]
    ELSE IF l.userTs # "" \/ l.roomTs # "" \/ l.userErr \/ l.roomErr
    THEN [pc |-> "done", loc |-> [l EXCEPT !.out = "suppressed"]]
    ELSE IF calEvents = <<>>
    THEN [pc |-> "done", loc |-> [l EXCEPT !.out = "silent"]]
    ELSE [pc |-> "h_loop", loc |-> [l EXCEPT !.calEvents = calEvents, !.i = 1]]

\* handleEvt once getCachedCalEvents has returned (calEvents, err): the error
\* reply, the check of userTs and roomTs, and the entry of the loop
Resolved(l, calEvents, err) ==
    IF err THEN [pc |-> "done", loc |-> [l EXCEPT !.err = TRUE, !.out = "error"]]
    ELSE IF l.userTs # "" \/ l.roomTs # ""
    THEN [pc |-> "done", loc |-> [l EXCEPT !.out = "suppressed"]]
    ELSE IF calEvents = <<>>
    THEN [pc |-> "done", loc |-> [l EXCEPT !.out = "silent"]]
    ELSE [pc |-> "h_loop", loc |-> [l EXCEPT !.calEvents = calEvents, !.i = 1]]

ReadCalAge(p) ==
    /\ pc[p] = "h_calage"
    /\ mut[loc[p].room] = NoProc
    /\ LET calAge == Sub(loc[p].now, configCache[loc[p].room].calTs)
       IN  Move(p, IF CalStale(calAge) THEN "h_fetch" ELSE "h_ret",
                [loc[p] EXCEPT !.calAge = calAge])
    /\ UNCHANGED <<clock, advances, ops, configCache, mut, kv, notifyLog, silenced>>

\* a failed fetch on the read path that falls back on the cached list
LazyFetchFallsBack(p, E) ==
    /\ pc[p] = "h_fetch"
    /\ \E ok \in E.fetchOk, evts \in E.feeds :
          IF ok
          THEN Move(p, "h_commit", [loc[p] EXCEPT !.evts = evts, !.nfetch = @ + 1])
          ELSE LET after == Resolved([loc[p] EXCEPT !.nfetch = @ + 1, !.err = TRUE],
                                     configCache[loc[p].room].CalEvents, FALSE)
               IN  Move(p, after.pc, after.loc)
    /\ UNCHANGED <<clock, advances, ops, configCache, mut, kv, notifyLog, silenced>>

\* getEvents(c.CalendarId, now) on the read path
LazyFetch(p, E) ==
    /\ pc[p] = "h_fetch"
    /\ \E ok \in E.fetchOk, evts \in E.feeds :
          IF ok
          THEN Move(p, "h_commit", [loc[p] EXCEPT !.evts = evts, !.nfetch = @ + 1])
          ELSE LET after == Resolved([loc[p] EXCEPT !.nfetch = @ + 1], <<>>, TRUE)
               IN  Move(p, after.pc, after.loc)
    /\ UNCHANGED <<clock, advances, ops, configCache, mut, kv, notifyLog, silenced>>

LazyCommit(p) ==
    /\ pc[p] = "h_commit"
    /\ mut[loc[p].room] = NoProc
    /\ SetConfig(loc[p].room,
                 [configCache[loc[p].room] EXCEPT !.calTs = loc[p].now,
                                                  !.CalEvents = loc[p].evts])
    /\ Move(p, "h_ret", [loc[p] EXCEPT !.evts = <<>>])
    /\ UNCHANGED <<clock, advances, ops, mut, kv, notifyLog, silenced>>

\* return c.CalEvents, nil
ReturnCalEvents(p) ==
    /\ pc[p] = "h_ret"
    /\ LET after == Resolved(loc[p], configCache[loc[p].room].CalEvents, FALSE)
       IN  Move(p, after.pc, after.loc)
    /\ UNCHANGED <<clock, advances, ops, configCache, mut, kv, notifyLog, silenced>>

-----------------------------------------------------------------------------
(* handleEvt: the loop over calEvents and the autoreply *)

\* the loop without its test of config.Autoreply
ScanEventAnyway(p) ==
    /\ pc[p] = "h_loop"
    /\ LET e == loc[p].calEvents[loc[p].i]
           auto == configCache[loc[p].room].Autoreply
           l == [loc[p] EXCEPT !.autoSeen = @ \cup {auto}]
       IN  IF Brackets(e, loc[p].now)
           THEN Move(p, "h_reply", [l EXCEPT !.msg = Message(e)])
           ELSE IF loc[p].i = Len(loc[p].calEvents)
           THEN Move(p, "done", [l EXCEPT !.out = "silent"])
           ELSE Move(p, "h_loop", [l EXCEPT !.i = @ + 1])
    /\ UNCHANGED <<clock, advances, ops, configCache, mut, kv, notifyLog, silenced>>

\* one iteration of the loop
ScanEvent(p) ==
    /\ pc[p] = "h_loop"
    /\ LET e == loc[p].calEvents[loc[p].i]
           auto == configCache[loc[p].room].Autoreply
           l == [loc[p] EXCEPT !.autoSeen = @ \cup {auto}]
       IN  IF auto /\ Brackets(e, loc[p].now)
           THEN Move(p, "h_reply", [l EXCEPT !.msg = Message(e)])
           ELSE IF loc[p].i = Len(loc[p].calEvents)
           THEN Move(p, "done", [l EXCEPT !.out = "silent"])
           ELSE Move(p, "h_loop", [l EXCEPT !.i = @ + 1])
    /\ UNCHANGED <<clock, advances, ops, configCache, mut, kv, notifyLog, silenced>>

\* evt.Reply(msg)
Reply(p) ==
    /\ pc[p] = "h_reply"
    /\ notifyLog' = Append(notifyLog, [user |-> loc[p].user, room |-> loc[p].room,
                                       at |-> clock, msg |-> loc[p].msg])
    /\ Move(p, "h_setuser", [loc[p] EXCEPT !.out = "notify", !.nreply = @ + 1])
    /\ UNCHANGED <<clock, advances, ops, configCache, mut, kv, silenced>>

\* the user's record written with the room's ten minutes
RecordUserTenMinutes(p) ==
    /\ pc[p] = "h_setuser"
    /\ SetKV(getUserSpamKey(loc[p].room, loc[p].user), TimeString(loc[p].now), RoomSpamTTL)
    /\ Move(p, "h_setroom", [loc[p] EXCEPT !.nset = @ + 1])
    /\ UNCHANGED <<clock, advances, ops, configCache, mut, notifyLog, silenced>>

\* hal.SetKV(userSpamKey, now.String(), time.Hour*2)
RecordUser(p) ==
    /\ pc[p] = "h_setuser"
    /\ SetKV(getUserSpamKey(loc[p].room, loc[p].user), TimeString(loc[p].now), UserSpamTTL)
    /\ Move(p, "h_setroom", [loc[p] EXCEPT !.nset = @ + 1])
    /\ UNCHANGED <<clock, advances, ops, configCache, mut, notifyLog, silenced>>

\* hal.SetKV(roomSpamKey, now.String(), time.Minute*10)
RecordRoom(p) ==
    /\ pc[p] = "h_setroom"
    /\ SetKV(getRoomSpamKey(loc[p].room), TimeString(loc[p].now), RoomSpamTTL)
    /\ Move(p, "done", [loc[p] EXCEPT !.nset = @ + 1])
    /\ UNCHANGED <<clock, advances, ops, configCache, mut, notifyLog, silenced>>

-----------------------------------------------------------------------------
(* updateCachedCalEvents, run by the room's scheduler or by "!gcal reload" *)

\* lines 226-232: take the time and look the room up; LoadFromPrefs comes next
UpdateBegin(l) == [l EXCEPT !.unow = clock, !.ret = "u_fetch"]

\* the PeriodicFunc of room r fires
Tick(r, E) ==
    /\ pc[Ticker(r)] \in {"idle", "done"}
    /\ Dispatched(E)
    /\ Move(Ticker(r), "lp_cid", UpdateBegin([ZeroLoc EXCEPT !.room = r, !.uret = "done"]))
    /\ UNCHANGED <<clock, advances, configCache, mut, kv, notifyLog, silenced>>

\* a failed fetch that empties the cache
UpdateFetchClearsOnError(p, E) ==
    /\ pc[p] = "u_fetch"
    /\ \E ok \in E.fetchOk, evts \in E.feeds :
          IF ok
          THEN /\ Move(p, "u_commit", [loc[p] EXCEPT !.evts = evts, !.nfetch = @ + 1])
               /\ UNCHANGED configCache
          ELSE /\ Move(p, loc[p].uret, [loc[p] EXCEPT !.err = TRUE, !.nfetch = @ + 1])
               /\ SetConfig(loc[p].room,
                            [configCache[loc[p].room] EXCEPT !.CalEvents = <<>>])
    /\ UNCHANGED <<clock, advances, ops, mut, kv, notifyLog, silenced>>

\* getEvents(c.CalendarId, now) in updateCachedCalEvents
UpdateFetch(p, E) ==
    /\ pc[p] = "u_fetch"
    /\ \E ok \in E.fetchOk, evts \in E.feeds :
          IF ok
          THEN Move(p, "u_commit", [loc[p] EXCEPT !.evts = evts, !.nfetch = @ + 1])
          ELSE Move(p, loc[p].uret, [loc[p] EXCEPT !.err = TRUE, !.nfetch = @ + 1])
    /\ UNCHANGED <<clock, advances, ops, configCache, mut, kv, notifyLog, silenced>>

\* a commit that replaces the list and leaves calTs as it was
UpdateCommitKeepsTs(p) ==
    /\ pc[p] = "u_commit"
    /\ mut[loc[p].room] = NoProc
    /\ SetConfig(loc[p].room,
                 [configCache[loc[p].room] EXCEPT !.CalEvents = loc[p].evts])
    /\ Move(p, loc[p].uret, [loc[p] EXCEPT !.evts = <<>>])
    /\ UNCHANGED <<clock, advances, ops, mut, kv, notifyLog, silenced>>

\* c.mut.Lock(); c.calTs = now; c.CalEvents = evts; c.mut.Unlock()
UpdateCommit(p) ==
    /\ pc[p] = "u_commit"
    /\ mut[loc[p].room] = NoProc
    /\ SetConfig(loc[p].room,
                 [configCache[loc[p].room] EXCEPT !.calTs = loc[p].unow,
                                                  !.CalEvents = loc[p].evts])
    /\ Move(p, loc[p].uret, [loc[p] EXCEPT !.evts = <<>>])
    /\ UNCHANGED <<clock, advances, ops, mut, kv, notifyLog, silenced>>

-----------------------------------------------------------------------------
(* handleCommand, after getCachedConfig *)

Status(p) ==
    /\ pc[p] = "c_switch"
    /\ loc[p].body[2] \in {"status", "help"}
    /\ Move(p, "done", [loc[p] EXCEPT !.out = loc[p].body[2]])
    /\ UNCHANGED <<clock, advances, ops, configCache, mut, kv, notifyLog, silenced>>

\* Config.expireCaches, first assignment: c.calTs = time.Time{}
ExpireCal(p) ==
    /\ pc[p] = "c_switch"
    /\ loc[p].body[2] \in {"expire", "reload"}
    /\ SetConfig(loc[p].room, [configCache[loc[p].room] EXCEPT !.calTs = ZeroTime])
    /\ Move(p, "x_cfg", loc[p])
    /\ UNCHANGED <<clock, advances, ops, mut, kv, notifyLog, silenced>>

\* expireCaches that forgets configTs
ExpireConfigForgotten(p) ==
    /\ pc[p] = "x_cfg"
    /\ IF loc[p].body[2] = "expire"
       THEN Move(p, "done", [loc[p] EXCEPT !.out = "expired"])
       ELSE Move(p, "lp_cid", UpdateBegin([loc[p] EXCEPT !.uret = "c_reloaded"]))
    /\ UNCHANGED <<clock, advances, ops, configCache, mut, kv, notifyLog, silenced>>

\* Config.expireCaches, second assignment: c.configTs = time.Time{}
ExpireConfig(p) ==
    /\ pc[p] = "x_cfg"
    /\ SetConfig(loc[p].room, [configCache[loc[p].room] EXCEPT !.configTs = ZeroTime])
    /\ IF loc[p].body[2] = "expire"
       THEN Move(p, "done", [loc[p] EXCEPT !.out = "expired"])
       ELSE Move(p, "lp_cid", UpdateBegin([loc[p] EXCEPT !.uret = "c_reloaded"]))
    /\ UNCHANGED <<clock, advances, ops, mut, kv, notifyLog, silenced>>

\* evt.Replyf("reload complete")
Reloaded(p) ==
    /\ pc[p] = "c_reloaded"
    /\ Move(p, "done", [loc[p] EXCEPT !.out = "reloaded"])
    /\ UNCHANGED <<clock, advances, ops, configCache, mut, kv, notifyLog, silenced>>

\* "!gcal silence <duration>"
Silence(p) ==
    /\ pc[p] = "c_switch"
    /\ loc[p].body[2] = "silence"
    /\ IF Len(loc[p].body) = 3 /\ ~ParseDuration(loc[p].body[3]).err
       THEN /\ SetKV(getRoomSpamKey(loc[p].room), "-", ParseDuration(loc[p].body[3]).d)
            /\ silenced' = [silenced EXCEPT ![loc[p].room] =
                                               clock + ParseDuration(loc[p].body[3]).d]
            /\ Move(p, "done", [loc[p] EXCEPT !.out = "silenced"])
       ELSE /\ Move(p, "done", [loc[p] EXCEPT !.out = "invalid"])
            /\ UNCHANGED <<kv, silenced>>
    /\ UNCHANGED <<clock, advances, ops, configCache, mut, notifyLog>>

-----------------------------------------------------------------------------
(* Time passes *)

Advance(E) ==
    /\ advances < E.maxAdvances
    /\ \E d \in E.steps : clock' = clock + d
    /\ advances' = advances + 1
    /\ UNCHANGED <<ops, configCache, mut, kv, pc, loc, notifyLog, silenced>>

-----------------------------------------------------------------------------
(* The steps of a goroutine, by the function they belong to *)

EvalStep(p, E) ==
    \/ GetUserTs(p)
    \/ GetRoomTs(p)
    \/ getCachedConfig(p)
    \/ ReadCalAge(p)
    \/ LazyFetch(p, E)
    \/ LazyCommit(p)
    \/ ReturnCalEvents(p)
    \/ ScanEvent(p)
    \/ Reply(p)
    \/ RecordUser(p)
    \/ RecordRoom(p)

LookupFails(p) ==
    \/ GetUserTsFails(p)
    \/ GetRoomTsFails(p)

LoadStep(p, E) ==
    \/ LoadCalendarId(p, E)
    \/ LoadFlags(p, E)
    \/ LoadTimezone(p, E)

UpdateStep(p, E) ==
    \/ UpdateFetch(p, E)
    \/ UpdateCommit(p)

ExpireStep(p) ==
    \/ ExpireCal(p)
    \/ ExpireConfig(p)

CommandStep(p) ==
    \/ Status(p)
    \/ ExpireStep(p)
    \/ Reloaded(p)
    \/ Silence(p)

-----------------------------------------------------------------------------
(* Suppression: two chat goroutines and the scheduler in one room, with the  *)
(* room configured and an event under way all along                         *)

SuppressEnv ==
    [users |-> Users,
     rooms |-> Rooms,
     bodies |-> {<<"hello">>, <<"!gcal", "silence", "4h">>, <<"!gcal", "silence", "1m">>},
     feeds |-> {<<EvOncall>>},
     fetchOk |-> {TRUE},
     cids |-> {Pref("cal-1")},
     bools |-> {Pref("true")},
     announce |-> {NoPref},
     tzs |-> {NoPref},
     steps |-> {9, 10, 119, 120},
     forever |-> FALSE,
     maxOps |-> MaxOps,
     maxAdvances |-> MaxAdvances]

Next ==
    \/ \E p \in Handlers : handleEvt(p, SuppressEnv)
    \/ \E r \in Rooms : Tick(r, SuppressEnv)
    \/ \E p \in Procs : EvalStep(p, SuppressEnv)
    \/ \E p \in Procs : LoadStep(p, SuppressEnv)
    \/ \E p \in Procs : UpdateStep(p, SuppressEnv)
    \/ \E p \in Procs : Silence(p)
    \/ Advance(SuppressEnv)

Spec == Init /\ [][Next]_vars

-----------------------------------------------------------------------------
(* The suppression records over time: one chat goroutine that answers and   *)
(* obeys every command                                                      *)

KVEnv ==
    [SuppressEnv EXCEPT !.bodies = @ \cup {<<"!gcal", "status">>, <<"!gcal", "expire">>,
                                           <<"!gcal", "reload">>},
                        !.maxOps = MaxKVOps, !.maxAdvances = MaxKVAdvances]

NextKV ==
    \/ handleEvt("h1", KVEnv)
    \/ EvalStep("h1", KVEnv)
    \/ LoadStep("h1", KVEnv)
    \/ UpdateStep("h1", KVEnv)
    \/ CommandStep("h1")
    \/ Advance(KVEnv)

SpecKV == Init /\ [][NextKV]_vars

-----------------------------------------------------------------------------
(* Progress: chat keeps arriving from every user, the goroutines keep        *)
(* running, sync.Mutex hands the lock to a chat goroutine that waits for    *)
(* it, and nobody silences the room                                         *)

LiveEnv ==
    [SuppressEnv EXCEPT !.bodies = {<<"hello">>}, !.steps = {UserSpamTTL},
                        !.forever = TRUE, !.maxAdvances = MaxLiveAdvances]

Run(p, E) == EvalStep(p, E) \/ LoadStep(p, E) \/ UpdateStep(p, E)

NextLive ==
    \/ handleEvt("h1", LiveEnv)
    \/ \E r \in Rooms : Tick(r, LiveEnv)
    \/ \E p \in Procs : Run(p, LiveEnv)
    \/ Advance(LiveEnv)

SpecLive ==
    /\ Init
    /\ [][NextLive]_vars
    /\ \A u \in Users : SF_vars(Deliver("h1", u, LiveEnv))
    /\ \A p \in Handlers : SF_vars(Run(p, LiveEnv))
    /\ \A p \in Tickers : WF_vars(Run(p, LiveEnv))

-----------------------------------------------------------------------------
(* The caches: one chat goroutine and the scheduler, with preferences that   *)
(* may be missing or wrong and a calendar that may fail                     *)

CacheEnv ==
    [users |-> {"u1"},
     rooms |-> Rooms,
     bodies |-> {<<"hello">>, <<"!gcal", "expire">>},
     feeds |-> {<<EvOncall>>},
     fetchOk |-> BOOLEAN,
     cids |-> {NoPref, Pref("cal-1")},
     bools |-> {Pref("true")},
     announce |-> {NoPref},
     tzs |-> {NoPref},
     steps |-> {66, 67},
     forever |-> FALSE,
     maxOps |-> MaxCacheOps,
     maxAdvances |-> MaxCacheAdvances]

NextCache ==
    \/ handleEvt("h1", CacheEnv)
    \/ \E r \in Rooms : Tick(r, CacheEnv)
    \/ \E p \in Procs : EvalStep(p, CacheEnv)
    \/ \E p \in Procs : LoadStep(p, CacheEnv)
    \/ \E p \in Procs : UpdateStep(p, CacheEnv)
    \/ \E p \in Procs : ExpireStep(p)
    \/ Advance(CacheEnv)

SpecCache == Init /\ [][NextCache]_vars

-----------------------------------------------------------------------------
(* The decision: one chat goroutine and the scheduler, minute by minute     *)
(* around the start and the end of an event, over feeds with none, one and  *)
(* two overlapping events and with autoreply on, off and unreadable         *)

DecideEnv ==
    [users |-> {"u1"},
     rooms |-> Rooms,
     bodies |-> {<<"hello">>},
     feeds |-> Feeds,
     fetchOk |-> {TRUE},
     cids |-> {Pref("cal-1")},
     bools |-> {NoPref, Pref("true"), Pref("yes")},
     announce |-> {NoPref},
     tzs |-> {NoPref},
     steps |-> {1},
     forever |-> FALSE,
     maxOps |-> MaxDecideOps,
     maxAdvances |-> MaxDecideAdvances]

NextDecide ==
    \/ handleEvt("h1", DecideEnv)
    \/ \E r \in Rooms : Tick(r, DecideEnv)
    \/ \E p \in Procs : EvalStep(p, DecideEnv)
    \/ \E p \in Procs : LoadStep(p, DecideEnv)
    \/ \E p \in Procs : UpdateStep(p, DecideEnv)
    \/ Advance(DecideEnv)

SpecDecide == Init /\ [][NextDecide]_vars

-----------------------------------------------------------------------------
(* Faults: one chat goroutine, events that may come from a room without a   *)
(* Config, a store whose lookups may fail, and preferences that may be      *)
(* missing or name no timezone                                              *)

FaultEnv ==
    [users |-> {"u1"},
     rooms |-> Rooms \cup {UnknownRoom},
     bodies |-> {<<"hello">>, <<"!gcal", "status">>},
     feeds |-> {<<EvOncall>>},
     fetchOk |-> {TRUE},
     cids |-> {NoPref, Pref("cal-1")},
     bools |-> {Pref("true")},
     announce |-> {NoPref},
     tzs |-> {NoPref, Pref("Mars/Olympus")},
     steps |-> {1},
     forever |-> FALSE,
     maxOps |-> MaxFaultOps,
     maxAdvances |-> MaxFaultAdvances]

NextFault ==
    \/ handleEvt("h1", FaultEnv)
    \/ EvalStep("h1", FaultEnv)
    \/ LookupFails("h1")
    \/ LoadStep("h1", FaultEnv)
    \/ Status("h1")
    \/ Advance(FaultEnv)

SpecFault == Init /\ [][NextFault]_vars

-----------------------------------------------------------------------------
(* Keys: one chat goroutine in a bot with two rooms, the id of the second   *)
(* being the id of the first, a hyphen and the id of a user                 *)

KeyRooms == {"r1", "r1-u1"}

\* initData has run for every room of KeyRooms
InitKeys ==
    /\ clock = 0
    /\ advances = 0
    /\ ops = 0
    /\ configCache = [r \in KeyRooms |-> ZeroConfig(r)]
    /\ mut = [r \in KeyRooms |-> NoProc]
    /\ kv = <<>>
    /\ pc = [p \in Procs |-> "idle"]
    /\ loc = [p \in Procs |-> ZeroLoc]
    /\ notifyLog = <<>>
    /\ silenced = [r \in KeyRooms |-> ZeroTime]

KeyEnv ==
    [users |-> {"u1"},
     rooms |-> KeyRooms,
     bodies |-> {<<"hello">>},
     feeds |-> {<<EvOncall>>},
     fetchOk |-> {TRUE},
     cids |-> {Pref("cal-1")},
     bools |-> {Pref("true")},
     announce |-> {NoPref},
     tzs |-> {NoPref},
     steps |-> {RoomSpamTTL},
     forever |-> FALSE,
     maxOps |-> MaxKeyOps,
     maxAdvances |-> MaxKeyAdvances]

NextKeys ==
    \/ handleEvt("h1", KeyEnv)
    \/ EvalStep("h1", KeyEnv)
    \/ LoadStep("h1", KeyEnv)
    \/ Advance(KeyEnv)

SpecKeys == InitKeys /\ [][NextKeys]_vars

-----------------------------------------------------------------------------
(* Suppression as handleEvt decides it (lines 132-136 and 149), read off    *)
(* the store at the present instant                                         *)

ShouldSuppress(userId, roomId) ==
    \/ GetKV(getUserSpamKey(roomId, userId)) # ""
    \/ GetKV(getRoomSpamKey(roomId)) # ""

\* C1: two autoreplies in one room are never less than 10 minutes apart, and
\* two autoreplies to one user in one room never less than 2 hours apart,
\* however chat events and scheduler ticks interleave
C1_NeverDoubleFires ==
    \A i, j \in DOMAIN notifyLog :
        (i < j /\ notifyLog[i].room = notifyLog[j].room) =>
            /\ notifyLog[j].at - notifyLog[i].at >= RoomSpamTTL
            /\ notifyLog[i].user = notifyLog[j].user =>
                   notifyLog[j].at - notifyLog[i].at >= UserSpamTTL

\* C4: from a "!gcal silence <d>" on, every user of the room is suppressed
\* for the whole duration d, whatever evaluations run beside or after it
C4_SilenceHolds ==
    \A r \in Rooms, u \in Users :
        clock < silenced[r] => ShouldSuppress(u, r)

Recorded(key) == key \in DOMAIN kv /\ kv[key].value # "-"

Replied(p) == pc[p] = "h_setuser"

\* user u would be answered in room r: no record suppresses the user, and no
\* goroutine is still writing the records of an autoreply it has sent
Elapsed(u, r) ==
    /\ ~ShouldSuppress(u, r)
    /\ \A p \in Handlers : pc[p] # "h_setroom"

\* C2: with an event under way, autoreply on, the collaborators answering,
\* chat arriving and nobody silencing the room, once the recorded TTLs have
\* run out for a user an evaluation sends an autoreply again
C2_NeverWedges ==
    \A u \in Users : Elapsed(u, "r1") ~> (\E p \in Handlers : Replied(p))

\* an autoreply is sent while the records of an earlier one lie run out
C2_Witness ==
    \E p \in Handlers :
        /\ Replied(p)
        /\ Recorded(getUserSpamKey(loc[p].room, loc[p].user))
        /\ Recorded(getRoomSpamKey(loc[p].room))
        /\ ~ShouldSuppress(loc[p].user, loc[p].room)

-----------------------------------------------------------------------------
(* The caches *)

\* goroutine p has evaluated a chat message and reached its decision
Evaluated(p) ==
    /\ pc[p] \in {"done", "h_setuser", "h_setroom"}
    /\ loc[p].out \in {"error", "suppressed", "silent", "notify"}

\* goroutine p is past the lazy check of getCachedCalEvents
PastLazyCheck(p) == pc[p] \in {"h_ret", "h_loop", "h_reply"} \/ Evaluated(p)

\* C5: an evaluation that finds the events fetched more than 66 minutes
\* before its now has made exactly one fetch by the time getCachedCalEvents
\* returns, hence before it decides
C5_OneFetchWhenStale ==
    \A p \in Handlers :
        (PastLazyCheck(p) /\ loc[p].calAge > 66) => loc[p].nfetch = 1

\* an evaluation has refetched events that had been cached 67 minutes before
C5_Witness ==
    \E p \in Handlers :
        /\ Evaluated(p)
        /\ loc[p].calAge = 67
        /\ loc[p].nfetch = 1
        /\ loc[p].out = "notify"

C7_FailedTickKeepsCache ==
    [][\A r \in Rooms :
          LET p == Ticker(r)
          IN  /\ (pc[p] = "u_fetch" /\ loc'[p].err) => pc'[p] = "done"
              /\ (pc'[p] # pc[p] /\ pc[p] # "u_commit") =>
                     /\ configCache'[r].CalEvents = configCache[r].CalEvents
                     /\ configCache'[r].calTs = configCache[r].calTs]_vars

\* a scheduled refresh has failed over a filled cache, which is still there
C7_Witness ==
    \E r \in Rooms :
        /\ pc[Ticker(r)] = "done"
        /\ loc[Ticker(r)].err
        /\ configCache[r].CalEvents # <<>>
        /\ configCache[r].calTs # ZeroTime

-----------------------------------------------------------------------------
(* The decision *)

\* event e is under way at the now of goroutine p, start and end excluded
ActiveFor(p, e) == e.Start < loc[p].now /\ loc[p].now < e.End

ActiveIndices(p) ==
    {i \in DOMAIN loc[p].calEvents : ActiveFor(p, loc[p].calEvents[i])}

\* goroutine p got past suppression and has decided from the list it was given
Scanned(p) == Evaluated(p) /\ loc[p].out \in {"silent", "notify"}

\* C8: an evaluation that is not suppressed and never reads autoreply as off
\* answers exactly when some event of its list starts before and ends after
\* its now; an event starting or ending at that very instant does not count
C8_ActiveIsStrict ==
    \A p \in Handlers :
        (Scanned(p) /\ FALSE \notin loc[p].autoSeen) =>
            (loc[p].out = "notify" <=> ActiveIndices(p) # {})

\* an evaluation at the very start or end of the only event stayed silent
\* with autoreply on
C8_Witness ==
    \E p \in Handlers :
        /\ Scanned(p)
        /\ loc[p].autoSeen = {TRUE}
        /\ loc[p].calEvents = <<EvStandup>>
        /\ loc[p].now \in {EvStandup.Start, EvStandup.End}
        /\ loc[p].out = "silent"

\* C9: an evaluation that answers answers once, with the description of the
\* first event of its list that is under way or, if that is empty, the
\* default message naming that event
C9_FirstActiveOnce ==
    \A p \in Handlers :
        (Scanned(p) /\ loc[p].out = "notify" /\ FALSE \notin loc[p].autoSeen) =>
            /\ loc[p].nreply = 1
            /\ ActiveIndices(p) # {}
            /\ LET first == CHOOSE i \in ActiveIndices(p) :
                                \A j \in ActiveIndices(p) : i <= j
                   e == loc[p].calEvents[first]
               IN  loc[p].msg = IF e.Description # "" THEN e.Description
                                 ELSE "Calendar event: \"" \o e.Name \o "\""

\* an evaluation has answered for the first of two events under way, in
\* either order
C9_Witness ==
    /\ \E p \in Handlers :
          /\ pc[p] = "done"
          /\ loc[p].out = "notify"
          /\ Cardinality(ActiveIndices(p)) = 2
          /\ loc[p].calEvents[1] = EvOncall
          /\ loc[p].msg = "quiet hours"
    /\ Len(notifyLog) = 1

\* C10: an evaluation that reads autoreply as off throughout sends nothing
\* and writes neither key, although an event of its list is under way
C10_AutoreplyOffIsInert ==
    \A p \in Handlers :
        (Scanned(p) /\ loc[p].autoSeen = {FALSE} /\ ActiveIndices(p) # {}) =>
            /\ loc[p].out = "silent"
            /\ loc[p].nreply = 0
            /\ loc[p].nset = 0

\* an evaluation has stayed silent during an event with autoreply off
C10_Witness ==
    \E p \in Handlers :
        /\ pc[p] = "done"
        /\ loc[p].autoSeen = {FALSE}
        /\ ActiveIndices(p) # {}
        /\ loc[p].out = "silent"
        /\ kv = <<>>
        /\ notifyLog = <<>>

-----------------------------------------------------------------------------
(* The order of the evaluation and its failures *)

\* the lookups of goroutine p found the user suppressed in the room
FoundSuppressed(p) == loc[p].userTs # "" \/ loc[p].roomTs # ""

\* C11: an evaluation whose lookups find the user suppressed ends as
\* suppressed without having reloaded the configuration, fetched events or
\* replied with an error
C11_SuppressedDoesNothing ==
    \A p \in Handlers :
        (Evaluated(p) /\ FoundSuppressed(p)) =>
            /\ loc[p].out = "suppressed"
            /\ loc[p].nload = 0
            /\ loc[p].nfetch = 0

\* C12: the step in which the fetch of a stale evaluation fails ends the
\* evaluation with the error reply: nothing is sent or recorded, and the
\* cached events and their timestamp stay as they were
C12_FailedLazyFetchIsReported ==
    [][\A p \in Handlers :
          (pc[p] = "h_fetch" /\ loc'[p].err) =>
              /\ pc'[p] = "done"
              /\ loc'[p].out = "error"
              /\ loc'[p].nreply = 0
              /\ loc'[p].nset = 0
              /\ notifyLog' = notifyLog
              /\ kv' = kv
              /\ configCache'[loc[p].room].CalEvents = configCache[loc[p].room].CalEvents
              /\ configCache'[loc[p].room].calTs = configCache[loc[p].room].calTs]_vars

\* an evaluation has ended with the error reply over a cache filled 67
\* minutes before, which is still there
C12_Witness ==
    \E p \in Handlers :
        /\ pc[p] = "done"
        /\ loc[p].err
        /\ loc[p].out = "error"
        /\ loc[p].calAge = 67
        /\ configCache[loc[p].room].CalEvents # <<>>
        /\ configCache[loc[p].room].calTs = loc[p].now - 67

\* C13: an evaluation whose reload of a stale configuration failed ends with
\* an error, without having fetched events or sent an autoreply
C13_FailedReloadIsReported ==
    \A p \in Handlers :
        (Evaluated(p) /\ loc[p].loadErr) =>
            /\ loc[p].out = "error"
            /\ loc[p].nfetch = 0
            /\ loc[p].nreply = 0

(* The cached events and their timestamp, the locks *)

\* goroutine p has read or written calTs under the lock of its room and has
\* not yet read the list it returns
BetweenReads(p) == pc[p] = "h_ret"

\* C14: a reader sees the events and the timestamp of one refresh: while it
\* stands between its read of the timestamp and its read of the list, no
\* other goroutine replaces either of them
C14_PairNeverTorn ==
    [][\A p \in Handlers :
          (BetweenReads(p) /\ pc'[p] = pc[p]) =>
              /\ configCache'[loc[p].room].CalEvents = configCache[loc[p].room].CalEvents
              /\ configCache'[loc[p].room].calTs = configCache[loc[p].room].calTs]_vars

(* Faults *)

\* C15: no goroutine faults, whatever room its event names
C15_UnknownRoomNeverFaults ==
    \A p \in Procs : loc[p].room \notin DOMAIN configCache => pc[p] # "panic"

\* C16: an evaluation ends as suppressed only on a key that a lookup found:
\* a lookup that failed counts as no record
C16_FailedLookupFailsOpen ==
    \A p \in Handlers :
        (Evaluated(p) /\ loc[p].out = "suppressed") =>
            \/ ~loc[p].userErr /\ loc[p].userTs # ""
            \/ ~loc[p].roomErr /\ loc[p].roomTs # ""

\* an autoreply has been sent by an evaluation whose two lookups failed,
\* while the store holds both keys
C16_Witness ==
    \E p \in Handlers :
        /\ pc[p] = "done"
        /\ loc[p].userErr
        /\ loc[p].roomErr
        /\ loc[p].out = "notify"
        /\ loc[p].nreply = 1
        /\ GetKV(getUserSpamKey(loc[p].room, loc[p].user)) # ""
        /\ GetKV(getRoomSpamKey(loc[p].room)) # ""
        /\ Len(notifyLog) = 2

(* Locks *)

\* the next step of goroutine p is a call of hal.GetPref or of getEvents
AtExternalCall(p) == pc[p] \in {"lp_flags", "lp_tz", "h_fetch", "u_fetch"}

\* C17: a goroutine about to call a collaborator holds the lock of no room
C17_NoLockAcrossExternalCall ==
    \A p \in Procs : AtExternalCall(p) => \A r \in Rooms : mut[r] # p

\* the fields of its room's Config that the next step of goroutine p assigns
WritesNext(p) ==
    CASE pc[p] = "lp_cid" -> {"CalendarId"}
      [] pc[p] = "lp_flags" -> {"Autoreply", "AnnounceStart", "AnnounceEnd"}
      [] pc[p] = "lp_tz" -> {"Timezone", "configTs"}
      [] pc[p] \in {"h_commit", "u_commit"} -> {"calTs", "CalEvents"}
      [] pc[p] = "c_switch" /\ loc[p].body[2] \in {"expire", "reload"} -> {"calTs"}
      [] pc[p] = "x_cfg" -> {"configTs"}
      [] OTHER -> {}

\* the fields of its room's Config that the next step of goroutine p reads
ReadsNext(p) ==
    CASE pc[p] = "gc_age" -> {"configTs"}
      [] pc[p] = "h_calage" -> {"calTs"}
      [] pc[p] \in {"h_fetch", "u_fetch"} -> {"CalendarId"}
      [] pc[p] = "h_ret" -> {"CalEvents"}
      [] pc[p] = "h_loop" -> {"Autoreply"}
      [] pc[p] = "c_switch" /\ loc[p].body[2] = "status" -> {"calTs", "configTs"}
      [] OTHER -> {}

\* the next step of goroutine p runs between c.mut.Lock() and c.mut.Unlock()
UnderLock(p) == pc[p] \in {"lp_cid", "lp_flags", "lp_tz", "h_calage", "h_commit", "u_commit"}

\* the next steps of p and q touch one field of one Config, p's assigns it,
\* and the lock does not order them
Races(p, q) ==
    /\ p # q
    /\ loc[p].room = loc[q].room
    /\ WritesNext(p) \cap (ReadsNext(q) \cup WritesNext(q)) # {}
    /\ ~(UnderLock(p) /\ UnderLock(q))

\* C18: no two goroutines are ever about to touch a field of a Config, one
\* of them assigning it, without the lock between them
C18_NoDataRace ==
    \A p, q \in Procs : ~Races(p, q)

(* Reloads and ticks that fail *)

\* the step in which the LoadFromPrefs of goroutine p returns its error
LoadFails(p) == ~loc[p].loadErr /\ loc'[p].loadErr

\* C19: the step in which LoadFromPrefs fails assigns nothing: without a
\* calendar id no field changes; with a timezone that does not resolve the
\* calendar id and the flags stay as just loaded, and neither Timezone nor
\* configTs changes
C19_FailedReloadKeepsConfig ==
    [][\A p \in Procs :
          /\ (pc[p] = "lp_cid" /\ LoadFails(p)) => configCache' = configCache
          /\ (pc[p] = "lp_tz" /\ LoadFails(p)) =>
                LET c == configCache[loc[p].room]
                    d == configCache'[loc[p].room]
                IN  /\ d.CalendarId = c.CalendarId
                    /\ d.Autoreply = c.Autoreply
                    /\ d.AnnounceStart = c.AnnounceStart
                    /\ d.AnnounceEnd = c.AnnounceEnd
                    /\ d.Timezone = c.Timezone
                    /\ d.configTs = c.configTs]_vars

\* a reload has failed on the timezone a minute after the program started:
\* the calendar id and autoreply it loaded are in the Config, which has no
\* timezone and was never marked as loaded
C19_Witness ==
    \E p \in Handlers :
        /\ pc[p] \in {"h_calage", "c_switch"}
        /\ loc[p].loadErr
        /\ loc[p].now = 1
        /\ configCache[loc[p].room].CalendarId = "cal-1"
        /\ configCache[loc[p].room].Autoreply
        /\ configCache[loc[p].room].Timezone = ""
        /\ configCache[loc[p].room].configTs = ZeroTime

\* C20: a scheduled refresh calls LoadFromPrefs once and then getEvents once
\* before it ends, whatever the cache holds and whether or not the reload
\* failed; its commit stores the fetched list with the time at which the
\* refresh began
C20_TickAlwaysRefetches ==
    [][\A r \in Rooms :
          LET p == Ticker(r)
          IN  /\ (pc'[p] = "u_fetch" /\ pc[p] # "u_fetch") =>
                     loc'[p].nload = 1 /\ loc'[p].nfetch = 0
              /\ (pc'[p] = "done" /\ pc[p] # "done") =>
                     loc'[p].nload = 1 /\ loc'[p].nfetch = 1
              /\ (pc[p] = "u_commit" /\ pc'[p] # "u_commit") =>
                     /\ ~loc[p].err
                     /\ configCache'[r].CalEvents = loc[p].evts
                     /\ configCache'[r].calTs = loc[p].unow]_vars

\* a scheduled refresh whose reload failed has fetched all the same, 67
\* minutes after the start, and has left the cache filled and dated at its
\* own time
C20_Witness ==
    \E r \in Rooms :
        /\ pc[Ticker(r)] = "done"
        /\ loc[Ticker(r)].loadErr
        /\ ~loc[Ticker(r)].err
        /\ loc[Ticker(r)].nfetch = 1
        /\ loc[Ticker(r)].unow = 67
        /\ configCache[r].CalEvents # <<>>
        /\ configCache[r].calTs = 67

(* The timestamp of the cached events, the keys and the calendar id *)

\* some goroutine runs the first assignment of expireCaches in this step
Expires == \E p \in Procs : pc[p] = "c_switch" /\ pc'[p] = "x_cfg"

TouchedRoom(r) ==
    \/ \E i \in DOMAIN notifyLog : notifyLog[i].room = r
    \/ silenced[r] # ZeroTime

\* C22: an evaluation finds its user suppressed only on a key written for
\* its own room: by an autoreply sent in that room or by a silence of it
C22_KeysIsolateRooms ==
    \A p \in Handlers :
        (Evaluated(p) /\ (loc[p].userTs # "" \/ loc[p].roomTs # "")) =>
            TouchedRoom(loc[p].room)

\* C23: a goroutine about to call getEvents, from the scheduled refresh or
\* from the lazy check, has a calendar id to pass: the Config of its room
\* does not hold the empty id of a Config that never loaded
C23_FetchHasCalendarId ==
    \A p \in Procs :
        pc[p] \in {"h_fetch", "u_fetch"} => configCache[loc[p].room].CalendarId # ""

====
